---- MODULE Spec2Model ----
(***************************************************************************)
(* A model of dmc2gym's DMCWrapper (src/dmc2gym/wrappers.py): the adapter  *)
(* that exposes a dm_control task through the gym interface.               *)
(*                                                                         *)
(* Numbers.  Every array element is a binary floating-point number.  A     *)
(* number is modelled by the integer x that stands for x / One, and a      *)
(* floating-point format by the count of significand bits it keeps:        *)
(* rounding is to nearest, ties to even, as numpy does.  The model keeps   *)
(* the two formats of the code (np.float32, np.float64) apart but with     *)
(* Prec32 and Prec64 significand bits instead of 24 and 53.                *)
(***************************************************************************)
EXTENDS Integers, Sequences, FiniteSets, TLC

\* ---------------------------------------------------------------- bounds
FracBits == 5   \* the grid: the integer x stands for the number x / 2^FracBits
Prec32 == 3     \* significand bits of the model's np.float32
Prec64 == 6     \* significand bits of the model's np.float64
MaxBound == 4   \* the declared action bounds lie in [-MaxBound, MaxBound]
MaxSkip == 2    \* frame_skip ranges over 1..MaxSkip
MaxCalls == 2   \* step calls made on one adapter

\* ------------------------------------------------------------ arithmetic
RECURSIVE Pow2(_)
Pow2(n) == IF n = 0 THEN 1 ELSE 2 * Pow2(n - 1)

One == Pow2(FracBits)
Quarter == One \div 4

Abs(x) == IF x < 0 THEN 0 - x ELSE x
Max(x, y) == IF x < y THEN y ELSE x

\* The least power of two m with N / (d * m) < 2^p: the spacing of the
\* p-bit numbers around N / d, never below the grid.
RECURSIVE Spacing(_, _, _, _)
Spacing(p, N, d, m) ==
  IF N < Pow2(p) * d * m THEN m ELSE Spacing(p, N, d, 2 * m)

\* The rational n / d (d > 0) rounded to p significand bits, to nearest and
\* ties to even.
Round(p, n, d) ==
  LET N    == Abs(n)
      m    == Spacing(p, N, d, 1)
      q    == N \div (d * m)
      r    == N % (d * m)
      up   == IF 2 * r > d * m \/ (2 * r = d * m /\ q % 2 = 1) THEN 1 ELSE 0
      mag  == (q + up) * m
  IN  IF n < 0 THEN 0 - mag ELSE mag

Rep(p, x) == Round(p, x, 1) = x

\* x.astype(np.float32), x.astype(np.float64)
AsFloat32(x) == Round(Prec32, x, 1)
AsFloat64(x) == Round(Prec64, x, 1)

\* The arithmetic of two float32 operands (a float32 result) and of a float64
\* with a float32 or float64 operand (numpy promotes to float64).
Sub32(x, y) == Round(Prec32, x - y, 1)
Sub64(x, y) == Round(Prec64, x - y, 1)
Add64(x, y) == Round(Prec64, x + y, 1)
Mul64(x, y) == Round(Prec64, x * y, One)
Div64(x, y) == Round(Prec64, x * One, y)

\* ------------------------------------------------------------- the task
\* Python's None, and a present value v as <<v>>.
None == <<>>
Some(v) == <<v>>

\* The physics states the simulator may be in (opaque to the adapter).
PhysStates == {"q0", "q1"}
\* What one simulator step may report.
Rewards == {None, Some(1)}
Discounts == {0, 1}
Seeds == {1, 2}

\* time_step.observation: an ordered dict of fields, a field a scalar or an
\* array (here of shape (2, 1)).
Observation(p) ==
  << [isscalar |-> FALSE, v |-> << <<p>>, <<"v">> >>],
     [isscalar |-> TRUE,  v |-> p] >>

\* self._env.observation_spec(): the shape of each field.
ObservationSpec == << <<2, 1>>, <<>> >>

RECURSIVE Prod(_)
Prod(shape) == IF shape = <<>> THEN 1 ELSE Head(shape) * Prod(Tail(shape))

RECURSIVE Concatenate(_)
Concatenate(pieces) ==
  IF pieces = <<>> THEN <<>> ELSE Head(pieces) \o Concatenate(Tail(pieces))

\* v.ravel() of a two-dimensional array: its rows one after the other.
Ravel(v) == Concatenate(v)

_flatten_obs(obs) ==
  Concatenate([i \in 1..Len(obs) |->
                 IF obs[i].isscalar THEN <<obs[i].v>> ELSE Ravel(obs[i].v)])

\* The action specs a task may declare: per dimension <<minimum, maximum>>,
\* both single-precision numbers.  The second holds a pair whose width
\* maximum - minimum is not a single-precision number.
WideHigh == One + 3 * (One \div Pow2(Prec32 - 1))
TaskSpecs ==
  { << <<0 - One, One>> >>,
    << <<0 - 3 * One, WideHigh>> >>,
    << <<0 - One, One>>, <<0, 2 * One>> >> }

\* ------------------------------------------------------------ the spaces
\* spaces.Box(low, high, dtype=np.float32) of _spec_to_box([action_spec]).
TrueActionSpace(c) ==
  [low  |-> [i \in 1..Len(c.action_spec) |-> AsFloat32(c.action_spec[i][1])],
   high |-> [i \in 1..Len(c.action_spec) |-> AsFloat32(c.action_spec[i][2])]]

NormActionSpace(c) ==
  [low  |-> [i \in 1..Len(c.action_spec) |-> AsFloat32(0 - One)],
   high |-> [i \in 1..Len(c.action_spec) |-> AsFloat32(One)]]

\* gym's Box.contains: the shape of the space and every element in bounds.
ContainsLowOnly(space, x) ==
  /\ Len(x) = Len(space.low)
  /\ \A i \in 1..Len(x) : x[i] >= space.low[i]

Contains(space, x) ==
  /\ Len(x) = Len(space.low)
  /\ \A i \in 1..Len(x) : x[i] >= space.low[i] /\ x[i] <= space.high[i]

\* The dimension _spec_to_box gives a box: the sum of the fields' sizes.
RECURSIVE SpecDim(_)
SpecDim(spec) ==
  IF spec = <<>> THEN 0 ELSE Prod(Head(spec)) + SpecDim(Tail(spec))

ImageHeight == 84
ImageWidth == 84
EncodedStateDim == 4

ObservationSpace(c) ==
  IF c.from_pixels
    THEN [kind  |-> "pixels",
          shape |-> IF c.channels_first THEN <<3, ImageHeight, ImageWidth>>
                                        ELSE <<ImageHeight, ImageWidth, 3>>]
    ELSE IF c.from_encoded_state
      THEN [kind |-> "encoded", shape |-> <<1, EncodedStateDim>>]
      ELSE [kind |-> "flat", shape |-> <<SpecDim(ObservationSpec)>>]

\* ------------------------------------------------------- _convert_action
ConvertElementNoOffset(x, nlow, nhigh, tlow, thigh) ==
  LET a64        == AsFloat64(x)
      true_delta == Sub32(thigh, tlow)
      norm_delta == Sub32(nhigh, nlow)
      unit       == Div64(Sub64(a64, nlow), norm_delta)
      scaled     == Mul64(unit, true_delta)
  IN  AsFloat32(scaled)

ConvertElement(x, nlow, nhigh, tlow, thigh) ==
  LET a64        == AsFloat64(x)
      true_delta == Sub32(thigh, tlow)
      norm_delta == Sub32(nhigh, nlow)
      unit       == Div64(Sub64(a64, nlow), norm_delta)
      scaled     == Add64(Mul64(unit, true_delta), tlow)
  IN  AsFloat32(scaled)

_convert_action(c, a) ==
  [i \in 1..Len(a) |->
     ConvertElement(a[i], NormActionSpace(c).low[i], NormActionSpace(c).high[i],
                    TrueActionSpace(c).low[i], TrueActionSpace(c).high[i])]

\* ------------------------------------------------------------- rendering
\* self._env.physics.render(height, width, camera_id): an H x W x 3 image of
\* the physics state.
render(p) == [kind |-> "pixels", shape |-> <<ImageHeight, ImageWidth, 3>>, of |-> p]

\* obs.transpose(2, 0, 1)
Transpose201(img) ==
  [img EXCEPT !.shape = <<img.shape[3], img.shape[1], img.shape[2]>>]

\* self._pos_vel_encoder.get_encoded_states(normalised, 1, model): the
\* collaborator's vector of the declared encoded-state dimension.
Encode(img) == [kind |-> "encoded", shape |-> <<1, EncodedStateDim>>, of |-> img.of]

_get_obs(c, p, ts) ==
  IF c.from_pixels \/ c.from_encoded_state
    THEN LET img == IF c.channels_first THEN Transpose201(render(p)) ELSE render(p)
         IN  IF c.from_encoded_state THEN Encode(img) ELSE img
    ELSE LET flat == _flatten_obs(ts.observation)
         IN  [kind |-> "flat", shape |-> <<Len(flat)>>, of |-> flat]

\* --------------------------------------------------------------- logging
\* The least n with no file img<n>.png (the while loop of save_pixel_img).
RECURSIVE FirstFree(_, _)
FirstFree(images, n) ==
  IF n \in DOMAIN images THEN FirstFree(images, n + 1) ELSE n

\* save_pixel_img: plt.imsave of the rendered frame under the first free name.
save_pixel_img(images, p) ==
  LET img_number == FirstFree(images, 0)
  IN  [n \in DOMAIN images \cup {img_number} |->
         IF n = img_number THEN render(p) ELSE images[n]]

\* np.vstack((log, log_local)): a one-dimensional log counts as one row.
VStack(log, row) == [ndim |-> 2, rows |-> Append(log.rows, row)]

\* save_measurements: files = [npy, csv], each [exists, ndim, rows].
save_measurements(files, ts) ==
  LET log_local == _flatten_obs(ts.observation)
  IN  IF files.npy.exists
        THEN LET log == VStack(files.npy, log_local)
             IN  [npy |-> [exists |-> TRUE, ndim |-> log.ndim, rows |-> log.rows],
                  csv |-> [exists |-> TRUE, ndim |-> log.ndim, rows |-> log.rows]]
        ELSE [npy |-> [exists |-> TRUE, ndim |-> 1, rows |-> <<log_local>>],
              csv |-> files.csv]

NoFile == [exists |-> FALSE, ndim |-> 0, rows |-> <<>>]

\* ------------------------------------------------------------- the state
VARIABLES
  cfg,            \* the constructor's arguments (never assigned again)
  seeds,          \* per space, the seed of its sampler: None or Some(v)
  env,            \* the simulator: its physics state and its random seed
  current_state,  \* self.current_state
  images,         \* <log_dir>/images: frame number -> the image saved
  measurements,   \* <log_dir>/measurements.npy and .csv
  pc,             \* "idle", or the place of the running step call
  arg,            \* the argument of the last step call
  action,         \* step's locals
  reward,
  done,
  time_step,
  extra,
  executed,       \* history: the time steps env.step returned in this call
  ret,            \* what the last call returned or raised
  hist            \* history: step calls made and returned, files at the start

vars == <<cfg, seeds, env, current_state, images, measurements, pc, arg,
          action, reward, done, time_step, extra, executed, ret, hist>>

locals == <<action, reward, done, time_step, extra, executed>>

SpaceNames == {"true_action_space", "norm_action_space",
               "observation_space", "state_space"}

NoTimeStep == [last |-> FALSE, reward |-> None, discount |-> 0,
               observation |-> <<>>]
NoObs == [kind |-> "none", shape |-> <<>>, of |-> <<>>]
NoExtra == [internal_state |-> "", discount |-> 0]
NoReturn == [kind |-> "none", obs |-> NoObs, reward |-> 0, done |-> FALSE,
             extra |-> NoExtra]
AssertionError == [NoReturn EXCEPT !.kind = "AssertionError"]

\* DMCWrapper.seed
SeedSpaces(s, v) ==
  [s EXCEPT !.true_action_space = Some(v),
            !.norm_action_space = Some(v),
            !.observation_space = Some(v)]

\* What a directory of frames may hold before the adapter is built.
PriorFrame == [kind |-> "pixels", shape |-> <<ImageHeight, ImageWidth, 3>>,
               of |-> "prior"]
PriorImages == { <<>>, (1 :> PriorFrame), (0 :> PriorFrame @@ 2 :> PriorFrame) }

\* The constructor's defaults (lines 50-67), with one frame per step call,
\* the first task spec and seed 1.
DefaultConfig ==
  [from_pixels |-> FALSE, from_encoded_state |-> FALSE, channels_first |-> TRUE,
   frame_skip |-> 1, use_dense_reward |-> FALSE,
   log_pixel_images |-> FALSE, log_measurements |-> FALSE,
   action_spec |-> << <<0 - One, One>> >>, random |-> 1]

\* The configurations checked: the defaults with one group of arguments
\* varied at a time (the observation mode, the loop, the logging, the task).
Configs ==
  {[DefaultConfig EXCEPT !.from_pixels = fp, !.from_encoded_state = fe,
                         !.channels_first = cf] :
     fp \in BOOLEAN, fe \in BOOLEAN, cf \in BOOLEAN}
  \cup {[DefaultConfig EXCEPT !.frame_skip = n, !.use_dense_reward = d] :
          n \in 1..MaxSkip, d \in BOOLEAN}
  \cup {[DefaultConfig EXCEPT !.log_pixel_images = lp, !.log_measurements = lm] :
          lp \in BOOLEAN, lm \in BOOLEAN}
  \cup {[DefaultConfig EXCEPT !.action_spec = sp, !.random = sd] :
          sp \in TaskSpecs, sd \in Seeds}
  \cup {[DefaultConfig EXCEPT !.action_spec = sp, !.log_pixel_images = TRUE,
                              !.log_measurements = TRUE] : sp \in TaskSpecs}

\* The frames found in the log directory when the adapter is built.
PriorImagesFor(c) == IF c.log_pixel_images THEN PriorImages ELSE {<<>>}

\* DMCWrapper.__init__
Constructed(c, prior) ==
  /\ cfg = c
  /\ seeds = SeedSpaces([n \in SpaceNames |-> None], c.random)
  /\ \E p \in PhysStates : env = [physics |-> p, random |-> c.random]
  /\ current_state = None
  /\ images = prior
  /\ measurements = [npy |-> NoFile, csv |-> NoFile]
  /\ pc = "idle"
  /\ arg = <<>>
  /\ action = <<>>
  /\ reward = 0
  /\ done = FALSE
  /\ time_step = NoTimeStep
  /\ extra = NoExtra
  /\ executed = <<>>
  /\ ret = NoReturn
  /\ hist = [calls |-> 0, accepted |-> 0, returned |-> 0, images0 |-> prior]

Init == \E c \in Configs : \E prior \in PriorImagesFor(c) : Constructed(c, prior)

\* ------------------------------------------------------------ operations
\* DMCWrapper.seed(seed): the samplers of three spaces, nothing else.
Seed(v) ==
  /\ pc = "idle"
  /\ seeds' = SeedSpaces(seeds, v)
  /\ UNCHANGED <<cfg, env, current_state, images, measurements, pc, arg,
                 locals, ret, hist>>

\* DMCWrapper.reset()
Reset ==
  /\ pc = "idle"
  /\ \E p \in PhysStates :
       LET ts == [last |-> FALSE, reward |-> None, discount |-> 0,
                  observation |-> Observation(p)]
       IN  /\ env' = [env EXCEPT !.physics = p]
           /\ current_state' = Some(_flatten_obs(ts.observation))
           /\ ret' = [NoReturn EXCEPT !.kind = "reset",
                                      !.obs = _get_obs(cfg, p, ts)]
  /\ UNCHANGED <<cfg, seeds, images, measurements, pc, arg, locals, hist>>

\* The actions a caller may pass: arrays of one or two elements, in and out
\* of the normalized range.
ActionValues == {0 - 6 * Quarter, 0 - One, 0, One, 6 * Quarter}
ActionArgs ==
  {<<x>> : x \in ActionValues}
  \cup {<<0, One>>, <<One, 0 - 6 * Quarter>>, <<6 * Quarter, 0>>}

\* The two validations of step (lines 179 and 181).
PassesNorm(c, a) == Contains(NormActionSpace(c), a)
PassesTrue(c, a) == Contains(TrueActionSpace(c), _convert_action(c, a))

\* self._env.physics.get_state().copy()
Snapshot(e) == e.physics

\* step(action), up to the loop: validate, convert, validate, snapshot.
\* A failed assert raises and leaves everything as it was.
StepCall(a) ==
  /\ pc = "idle"
  /\ hist.calls < MaxCalls
  /\ arg' = a
  /\ hist' = [hist EXCEPT !.calls = @ + 1,
                          !.accepted = IF PassesNorm(cfg, a) THEN @ + 1 ELSE @]
  /\ IF PassesNorm(cfg, a) /\ PassesTrue(cfg, a)
       THEN /\ action' = _convert_action(cfg, a)
            /\ reward' = 0
            /\ extra' = [NoExtra EXCEPT !.internal_state = Snapshot(env)]
            /\ pc' = "loop"
            /\ ret' = NoReturn
       ELSE /\ ret' = AssertionError
            /\ UNCHANGED <<action, reward, extra, pc>>
  /\ UNCHANGED <<cfg, seeds, env, current_state, images, measurements,
                 done, time_step, executed>>

\* rewards.tolerance(physics.pole_vertical(), ...) of a physics state.
DenseReward(p) == IF p = "q0" THEN 2 ELSE 1

\* time_step.reward or 0
RewardOrZero(r) == IF r = None THEN 0 ELSE r[1]

StepReward(c, ts, p) ==
  IF c.use_dense_reward THEN DenseReward(p) ELSE RewardOrZero(ts.reward)

\* Whether the for loop runs again after an iteration that made n in all.
LoopAgainNoBreak(c, n, isdone) == n < c.frame_skip

LoopAgain(c, n, isdone) == ~isdone /\ n < c.frame_skip

\* One iteration of the loop: self._env.step(action) and the bookkeeping.
SubStep ==
  /\ pc = "loop"
  /\ \E p \in PhysStates, r \in Rewards, l \in BOOLEAN, d \in Discounts :
       LET ts == [last |-> l, reward |-> r, discount |-> d,
                  observation |-> Observation(p)]
       IN  /\ env' = [env EXCEPT !.physics = p]
           /\ time_step' = ts
           /\ reward' = reward + StepReward(cfg, ts, p)
           /\ done' = ts.last
           /\ executed' = Append(executed, [time_step |-> ts,
                                             before |-> env.physics,
                                             physics |-> p])
           /\ pc' = IF LoopAgain(cfg, Len(executed) + 1, ts.last)
                      THEN "loop" ELSE "finish"
  /\ UNCHANGED <<cfg, seeds, current_state, images, measurements, arg,
                 action, extra, ret, hist>>

\* The info record step returns: extra, with the discount of the time step
\* the loop ended on (e is the simulator at the return).
InfoSnapshotAtReturn(ex, ts, e) ==
  [internal_state |-> Snapshot(e), discount |-> ts.discount]

Info(ex, ts, e) == [ex EXCEPT !.discount = ts.discount]

LogsPixelsAlways(c) == TRUE

LogsPixels(c) == c.log_pixel_images
LogsMeasurements(c) == c.log_measurements

\* step after the loop: the observation, the cached state, the info record,
\* the logging, the return.  The locals die with the call.
StepReturn ==
  /\ pc = "finish"
  /\ current_state' = Some(_flatten_obs(time_step.observation))
  /\ images' = IF LogsPixels(cfg) THEN save_pixel_img(images, env.physics)
                                  ELSE images
  /\ measurements' = IF LogsMeasurements(cfg)
                       THEN save_measurements(measurements, time_step)
                       ELSE measurements
  /\ ret' = [kind |-> "step", obs |-> _get_obs(cfg, env.physics, time_step),
             reward |-> reward, done |-> done, extra |-> Info(extra, time_step, env)]
  /\ hist' = [hist EXCEPT !.returned = @ + 1]
  /\ pc' = "idle"
  /\ action' = <<>>
  /\ reward' = 0
  /\ done' = FALSE
  /\ time_step' = NoTimeStep
  /\ extra' = NoExtra
  /\ executed' = <<>>
  /\ arg' = <<>>
  /\ UNCHANGED <<cfg, seeds, env>>

Next ==
  \/ \E v \in Seeds : Seed(v)
  \/ Reset
  \/ \E a \in ActionArgs : StepCall(a)
  \/ SubStep
  \/ StepReturn

Spec == Init /\ [][Next]_vars

\* ------------------------------------------------- _convert_action alone
\* The single-precision numbers a task may declare as bounds, and the specs
\* of one dimension built from them (minimum <= maximum).
SingleValues ==
  {x \in (0 - MaxBound * One)..(MaxBound * One) :
     x % Quarter = 0 /\ Rep(Prec32, x)}
ConvSpecs ==
  {<<pair>> : pair \in {q \in SingleValues \X SingleValues : q[1] <= q[2]}}
ConvArgs == {<<k * Quarter>> : k \in (0 - 6)..6}

InitConv ==
  \E sp \in ConvSpecs : Constructed([DefaultConfig EXCEPT !.action_spec = sp], <<>>)

\* A call of _convert_action(a) on a fresh adapter: arg is its argument,
\* action its result.
ConvertCall(a) ==
  /\ pc = "idle"
  /\ arg = <<>>
  /\ arg' = a
  /\ action' = _convert_action(cfg, a)
  /\ UNCHANGED <<cfg, seeds, env, current_state, images, measurements, pc,
                 reward, done, time_step, extra, executed, ret, hist>>

NextConv == \E a \in ConvArgs : ConvertCall(a)

SpecConv == InitConv /\ [][NextConv]_vars

\* ================================================================ claims
\* Every component of a lies in the normalized range [-1, 1].
InNormalizedRange(a) == \A i \in 1..Len(a) : a[i] >= 0 - One /\ a[i] <= One

\* The reward of one executed sub-step: the dense reward of the physics it
\* led to, or the native reward with an absent one counting as zero.
SubStepReward(e) ==
  IF cfg.use_dense_reward THEN DenseReward(e.physics)
  ELSE IF e.time_step.reward = None THEN 0 ELSE e.time_step.reward[1]

RECURSIVE SumRewards(_)
SumRewards(es) ==
  IF es = <<>> THEN 0 ELSE SubStepReward(Head(es)) + SumRewards(Tail(es))

IsSubStep == Len(executed') = Len(executed) + 1
IsReturn == pc = "finish" /\ pc' = "idle"

\* C1: one call of step executes at most frame_skip simulator sub-steps and
\* none after the first terminal one (a sub-step is executed only while fewer
\* than frame_skip were and none of them was terminal); the call returns done
\* equal to the terminal flag of the last executed sub-step and a reward equal
\* to the sum of the rewards of exactly the sub-steps executed.
C1_FrameSkipLoop ==
  [][/\ IsSubStep =>
          /\ Len(executed) < cfg.frame_skip
          /\ \A i \in 1..Len(executed) : ~executed[i].time_step.last
     /\ IsReturn =>
          /\ Len(executed) >= 1
          /\ Len(executed) <= cfg.frame_skip
          /\ ret'.kind = "step"
          /\ ret'.done = executed[Len(executed)].time_step.last
          /\ ret'.reward = SumRewards(executed)]_vars

\* A call with frame_skip 2 stopped after one sub-step, which was terminal and
\* carried a reward.
C1_Witness ==
  /\ pc = "finish"
  /\ cfg.frame_skip = 2
  /\ Len(executed) = 1
  /\ executed[1].time_step.last
  /\ reward = 1

IsStepCall == hist'.calls = hist.calls + 1

\* C2: a step call whose action has a component outside [-1, 1] fails with an
\* assertion error before the simulator is advanced: no sub-step is executed,
\* the physics, current_state and the log files are as they were.
C2_RejectsBeforeAdvancing ==
  [][(IsStepCall /\ ~InNormalizedRange(arg')) =>
       /\ ret' = AssertionError
       /\ pc' = "idle"
       /\ env' = env
       /\ current_state' = current_state
       /\ images' = images
       /\ measurements' = measurements
       /\ executed' = <<>>]_vars

\* A rejected call on an adapter that has stepped and logged before.
C2_Witness ==
  /\ ret = AssertionError
  /\ arg = <<6 * Quarter>>
  /\ hist.returned = 1
  /\ current_state # None
  /\ DOMAIN images # {}

\* The true bounds of dimension i, and twice-One times the exact affine
\* rescale of a[i] (the numerator over 2 * One).
TrueLow(i) == TrueActionSpace(cfg).low[i]
TrueHigh(i) == TrueActionSpace(cfg).high[i]
ExactTimes2One(a, i) == (a[i] + One) * (TrueHigh(i) - TrueLow(i)) + 2 * One * TrueLow(i)

Converted == pc = "idle" /\ arg # <<>> /\ Len(action) = Len(arg)

C4_ConvertedInTrueBounds ==
  (Converted /\ InNormalizedRange(arg)) =>
    \A i \in 1..Len(arg) : action[i] >= TrueLow(i) /\ action[i] <= TrueHigh(i)

\* C5: the info record step returns holds the physics state of before the
\* first sub-step of the call and the discount of the last sub-step executed.
C5_InfoRecord ==
  [][IsReturn =>
       /\ ret'.extra.internal_state = executed[1].before
       /\ ret'.extra.discount = executed[Len(executed)].time_step.discount]_vars

\* A call about to return whose two sub-steps changed the physics and
\* reported different discounts.
C5_Witness ==
  /\ pc = "finish"
  /\ Len(executed) = 2
  /\ executed[1].before # env.physics
  /\ executed[1].time_step.discount # executed[2].time_step.discount

\* C6: with both logging flags disabled no reset or step call creates,
\* appends to or overwrites a file.
C6_NoLoggingNoWrites ==
  [][(~cfg.log_pixel_images /\ ~cfg.log_measurements) =>
       (images' = images /\ measurements' = measurements)]_vars

\* Two step calls and a reset made with logging disabled.
C6_Witness ==
  /\ ~cfg.log_pixel_images
  /\ ~cfg.log_measurements
  /\ hist.returned = 2
  /\ ret.kind = "reset"

\* C7: with measurement logging on, after every step call that appended a
\* measurement (the first included) the CSV file exists and holds the rows of
\* the array file, one row per such call.
C7_CsvMirrorsArray ==
  (cfg.log_measurements /\ measurements.npy.exists) =>
    /\ measurements.csv.exists
    /\ measurements.csv.rows = measurements.npy.rows
    /\ Len(measurements.npy.rows) = hist.returned

\* C8: whatever the flags, the observation reset and step return is in the
\* representation of the observation space declared at construction.
C8_ObservationInDeclaredSpace ==
  ret.kind \in {"reset", "step"} =>
    /\ ret.obs.kind = ObservationSpace(cfg).kind
    /\ ret.obs.shape = ObservationSpace(cfg).shape

\* C9: seed(v) gives the one value v to the sampler of all four spaces and
\* leaves the simulator alone.
C9_SeedReachesEverySpace ==
  [][seeds' # seeds =>
       /\ \E v \in Seeds : \A n \in SpaceNames : seeds'[n] = Some(v)
       /\ env' = env]_vars

\* C10: with pixel logging on, each step call (with an action of the
\* normalized space) has written exactly one new frame under the least unused
\* number, the frames found at construction are as they were, and from an
\* empty directory k calls leave img0 .. img(k-1).
C10_OneFramePerStepCall ==
  (cfg.log_pixel_images /\ pc = "idle") =>
    /\ Cardinality(DOMAIN images)
         = Cardinality(DOMAIN hist.images0) + hist.accepted
    /\ \A n \in DOMAIN hist.images0 : images[n] = hist.images0[n]
    /\ hist.images0 = <<>> => DOMAIN images = 0..(hist.accepted - 1)

\* Lemma (with C10): a step call that returns with pixel logging on writes
\* exactly one frame, under the least unused number, and changes no other.
FramePerReturnedCall ==
  [][(IsReturn /\ cfg.log_pixel_images) =>
       \E n \in DOMAIN images' :
         /\ n \notin DOMAIN images
         /\ \A k \in 0..(n - 1) : k \in DOMAIN images
         /\ DOMAIN images' = DOMAIN images \cup {n}
         /\ \A k \in DOMAIN images : images'[k] = images[k]]_vars

====
